---- MODULE Spec2Model ----
(***************************************************************************)
(* Token resolution of ghet-rektstension (src/src/lib.rs).                 *)
(*                                                                         *)
(* token_for_host(host) consults, in order, the process environment, the   *)
(* (stubbed) configuration file and the `gh` helper subprocess.  Strings   *)
(* are sequences of Unicode scalar values, raw process data (environment   *)
(* values, the helper's stdout and stderr) are sequences of bytes, and the *)
(* conversion between both is UTF-8 decoding.                              *)
(***************************************************************************)
EXTENDS Integers, Sequences, FiniteSets, TLC

VARIABLES
    env,        \* process environment: variable name -> unset | bytes
    helper,     \* what the `gh` helper does when it is spawned
    pc,         \* position of the current call of token_for_host
    host,       \* argument of the current call
    acc,        \* the Option<Token> the or_else chain has produced so far
    consulted,  \* resolvers invoked by the current call, in order
    spawned,    \* argument vectors of the helper processes the call spawned
    outcome,    \* how the current call ended
    prev        \* per host: outcome of the last call since env/helper changed

vars == <<env, helper, pc, host, acc, consulted, spawned, outcome, prev>>

----------------------------------------------------------------------------
(* Bounds of the model *)

\* longest helper stdout drawn from StdoutAlphabet
MaxStdoutLen == 3

----------------------------------------------------------------------------
(* Option and Result *)

None == [some |-> FALSE]
Some(x) == [some |-> TRUE, val |-> x]

\* Option::or
Or(a, b) == IF a.some THEN a ELSE b

Ok(x) == [ok |-> TRUE, val |-> x]
Err(e) == [ok |-> FALSE, err |-> e]

----------------------------------------------------------------------------
(* Text: UTF-8 decoding, trim, contains *)

RECURSIVE Utf8Decode(_, _, _)
\* Decodes bytes b from index i on; decoded holds the scalar values so far.
Utf8Decode(b, i, decoded) ==
    IF i > Len(b) THEN Ok(decoded)
    ELSE
        LET b0 == b[i]
            width == IF b0 < 128 THEN 1
                     ELSE IF b0 \in 194..223 THEN 2
                     ELSE IF b0 \in 224..239 THEN 3
                     ELSE IF b0 \in 240..244 THEN 4
                     ELSE 0
            \* range of the second byte: excludes overlong forms, surrogates
            \* and values above U+10FFFF
            lo1 == IF b0 = 224 THEN 160 ELSE IF b0 = 240 THEN 144 ELSE 128
            hi1 == IF b0 = 237 THEN 159 ELSE IF b0 = 244 THEN 143 ELSE 191
            cont(k) == b[i + k] \in 128..191
            bad == [ok |-> FALSE, err |-> [valid_up_to |-> i - 1]]
        IN  IF width = 0 \/ i + width - 1 > Len(b) THEN bad
            ELSE IF width = 1 THEN Utf8Decode(b, i + 1, Append(decoded, b0))
            ELSE IF ~(b[i + 1] \in lo1..hi1) THEN bad
            ELSE IF width = 2 THEN
                Utf8Decode(b, i + 2,
                    Append(decoded, (b0 - 192) * 64 + (b[i + 1] - 128)))
            ELSE IF ~cont(2) THEN bad
            ELSE IF width = 3 THEN
                Utf8Decode(b, i + 3,
                    Append(decoded, (b0 - 224) * 4096 + (b[i + 1] - 128) * 64
                                    + (b[i + 2] - 128)))
            ELSE IF ~cont(3) THEN bad
            ELSE Utf8Decode(b, i + 4,
                    Append(decoded, (b0 - 240) * 262144
                                    + (b[i + 1] - 128) * 4096
                                    + (b[i + 2] - 128) * 64 + (b[i + 3] - 128)))

\* str::from_utf8
from_utf8(bytes) == Utf8Decode(bytes, 1, <<>>)

\* char::is_whitespace: the Unicode White_Space property
WhiteSpace ==
    (9..13) \cup {32, 133, 160, 5760} \cup (8192..8202)
            \cup {8232, 8233, 8239, 8287, 12288}

RECURSIVE trim_start(_)
trim_start(s) ==
    IF s # <<>> /\ Head(s) \in WhiteSpace THEN trim_start(Tail(s)) ELSE s

RECURSIVE trim_end(_)
trim_end(s) ==
    IF s # <<>> /\ s[Len(s)] \in WhiteSpace
    THEN trim_end(SubSeq(s, 1, Len(s) - 1))
    ELSE s

\* str::trim_end in the place of str::trim
trim_trailing_only(s) == trim_end(s)

\* str::trim
trim(s) == trim_end(trim_start(s))

starts_with(s, pat) ==
    Len(pat) <= Len(s) /\ SubSeq(s, 1, Len(pat)) = pat

\* == in the place of str::contains
equals_pattern(s, pat) == s = pat

RECURSIVE contains(_, _)
\* str::contains
contains(s, pat) ==
    \/ starts_with(s, pat)
    \/ s # <<>> /\ contains(Tail(s), pat)

\* "no oauth token found"
NoOAuthTokenFound ==
    <<110, 111, 32, 111, 97, 117, 116, 104, 32, 116, 111, 107, 101, 110, 32,
      102, 111, 117, 110, 100>>

----------------------------------------------------------------------------
(* Data model *)

EnvNames ==
    {"GH_TOKEN", "GITHUB_TOKEN", "GH_ENTERPRISE_TOKEN", "GITHUB_ENTERPRISE_TOKEN"}

Var == {"GHToken", "GitHubToken", "GHEnterpriseToken", "GitHubEnterpriseToken"}

SourceEnv(var) == [tag |-> "Env", var |-> var]
SourceConfig(path) == [tag |-> "Config", path |-> path]
SourceKeyring == [tag |-> "Keyring"]

Token(value, source) == [value |-> value, source |-> source]

EnvToken(value, var) == [value |-> value, var |-> var]
KeyringToken(value) == [value |-> value]

\* impl From<EnvToken> for Token
TokenFromEnvToken(t) == Token(t.value, SourceEnv(t.var))
\* impl From<ConfigToken> for Token
TokenFromConfigToken(t) == Token(t.value, SourceConfig(t.path))
\* impl From<KeyringToken> for Token
TokenFromKeyringToken(t) == Token(t.value, SourceKeyring)

FailToExecute(kind) == [tag |-> "FailToExecute", kind |-> kind]
StdoutNotUTF8(e) == [tag |-> "StdoutNotUTF8", utf8 |-> e]
StdErrorNotUTF8(e) == [tag |-> "StdErrorNotUTF8", utf8 |-> e]
OutputStatusFail(text) == [tag |-> "OutputStatusFail", text |-> text]

----------------------------------------------------------------------------
(* The world outside the library: hosts, environment, helper *)

Hosts == {"github.com", "my.ghes.com", "GitHub.com"}

Unset == [set |-> FALSE]
SetTo(bytes) == [set |-> TRUE, bytes |-> bytes]

\* values a variable is set to: "", "a" and a value that is not valid Unicode
EnvBytes == {<<>>, <<97>>, <<255>>}
EnvValues == {Unset} \cup {SetTo(b) : b \in EnvBytes}

StdoutAlphabet == {32, 97}

RECURSIVE SeqsUpTo(_, _)
SeqsUpTo(S, n) ==
    IF n = 0 THEN {<<>>}
    ELSE LET shorter == SeqsUpTo(S, n - 1)
         IN  shorter \cup {Append(s, x) : s \in shorter, x \in S}

\* "a" NBSP, "a\n", a lone 0xFF, a truncated two-byte sequence
ExtraStdouts == {<<97, 194, 160>>, <<97, 10>>, <<255>>, <<97, 194>>}
Stdouts == SeqsUpTo(StdoutAlphabet, MaxStdoutLen) \cup ExtraStdouts

\* the benign diagnostic alone, inside a longer message, with another casing,
\* cut short, followed by an undecodable byte; no text; undecodable text
Stderrs ==
    { NoOAuthTokenFound,
      <<101, 58, 32>> \o NoOAuthTokenFound \o <<10>>,
      <<78>> \o Tail(NoOAuthTokenFound),
      SubSeq(NoOAuthTokenFound, 1, Len(NoOAuthTokenFound) - 1),
      NoOAuthTokenFound \o <<255>>,
      <<>>,
      <<255>> }

Exited(success, stdout, stderr) ==
    [launch |-> "Ok", success |-> success, stdout |-> stdout, stderr |-> stderr]
NotLaunched(kind) ==
    [launch |-> kind, success |-> FALSE, stdout |-> <<>>, stderr |-> <<>>]

HelperBehaviours ==
    {Exited(TRUE, o, <<>>) : o \in Stdouts}
        \cup {Exited(FALSE, <<>>, e) : e \in Stderrs}
        \cup {Exited(TRUE, <<97, 10>>, NoOAuthTokenFound),
              Exited(FALSE, <<97, 10>>, NoOAuthTokenFound)}
        \cup {NotLaunched(k) : k \in {"NotFound", "PermissionDenied"}}

----------------------------------------------------------------------------
(* Resolvers *)

\* Result::ok
ok(r) == IF r.ok THEN Some(r.val) ELSE None

\* std::env::var
env_var(name) ==
    IF ~env[name].set THEN Err("NotPresent")
    ELSE LET d == from_utf8(env[name].bytes)
         IN  IF d.ok THEN Ok(d.val) ELSE Err("NotUnicode")

to_env_token(var, value) == EnvToken(value, var)

\* std::env::var(name).ok().map(to_env_token(var))
env_token(name, var) ==
    LET o == ok(env_var(name))
    IN  IF o.some THEN Some(to_env_token(var, o.val)) ELSE None

\* the long form first for github.com
token_from_env_long_plain_first(h) ==
    IF h = "github.com"
    THEN Or(env_token("GITHUB_TOKEN", "GitHubToken"),
            env_token("GH_TOKEN", "GHToken"))
    ELSE Or(env_token("GH_ENTERPRISE_TOKEN", "GHEnterpriseToken"),
            env_token("GITHUB_ENTERPRISE_TOKEN", "GitHubEnterpriseToken"))

\* the long form first for the other hosts
token_from_env_long_enterprise_first(h) ==
    IF h = "github.com"
    THEN Or(env_token("GH_TOKEN", "GHToken"),
            env_token("GITHUB_TOKEN", "GitHubToken"))
    ELSE Or(env_token("GITHUB_ENTERPRISE_TOKEN", "GitHubEnterpriseToken"),
            env_token("GH_ENTERPRISE_TOKEN", "GHEnterpriseToken"))

\* every host falls back to the variables of the other class
token_from_env_any_class(h) ==
    LET plain == Or(env_token("GH_TOKEN", "GHToken"),
                    env_token("GITHUB_TOKEN", "GitHubToken"))
        enterprise ==
            Or(env_token("GH_ENTERPRISE_TOKEN", "GHEnterpriseToken"),
               env_token("GITHUB_ENTERPRISE_TOKEN", "GitHubEnterpriseToken"))
    IN  IF h = "github.com" THEN Or(plain, enterprise)
        ELSE Or(enterprise, plain)

token_from_env(h) ==
    LET env_tokens ==
            [gh_token |-> env_token("GH_TOKEN", "GHToken"),
             github_token |-> env_token("GITHUB_TOKEN", "GitHubToken"),
             gh_enterprise_token |->
                 env_token("GH_ENTERPRISE_TOKEN", "GHEnterpriseToken"),
             github_enterprise_token |->
                 env_token("GITHUB_ENTERPRISE_TOKEN", "GitHubEnterpriseToken")]
    IN  IF h = "github.com"
        THEN Or(env_tokens.gh_token, env_tokens.github_token)
        ELSE Or(env_tokens.gh_enterprise_token,
                env_tokens.github_enterprise_token)

token_from_config(h) == None

\* the build modelled is the one without cfg(test)
CfgTest == FALSE

args(h) ==
    IF CfgTest
    THEN <<"auth", "token", "--hostname", h>>
    ELSE <<"auth", "token", "--secure-storage", "--hostname", h>>

\* Command::new("gh").args(args).output()
command_output(argv) ==
    IF helper.launch = "Ok"
    THEN Ok([success |-> helper.success,
             stdout |-> helper.stdout,
             stderr |-> helper.stderr])
    ELSE Err(helper.launch)

\* an empty trimmed stdout reported as "not found"
token_from_keyring_empty_is_absent(h) ==
    LET out == command_output(args(h))
    IN  IF ~out.ok THEN Err(FailToExecute(out.err))
        ELSE IF out.val.success
        THEN LET d == from_utf8(out.val.stdout)
             IN  IF ~d.ok THEN Err(StdoutNotUTF8(d.err))
                 ELSE IF trim(d.val) = <<>> THEN Ok(None)
                 ELSE Ok(Some(KeyringToken(trim(d.val))))
        ELSE LET d == from_utf8(out.val.stderr)
             IN  IF ~d.ok THEN Err(StdErrorNotUTF8(d.err))
                 ELSE IF contains(d.val, NoOAuthTokenFound)
                 THEN Ok(None)
                 ELSE Err(OutputStatusFail(d.val))

token_from_keyring(h) ==
    LET out == command_output(args(h))
    IN  IF ~out.ok THEN Err(FailToExecute(out.err))
        ELSE IF out.val.success
        THEN LET d == from_utf8(out.val.stdout)
             IN  IF d.ok
                 THEN Ok(Some(KeyringToken(trim(d.val))))
                 ELSE Err(StdoutNotUTF8(d.err))
        ELSE LET d == from_utf8(out.val.stderr)
             IN  IF ~d.ok THEN Err(StdErrorNotUTF8(d.err))
                 ELSE IF contains(d.val, NoOAuthTokenFound)
                 THEN Ok(None)
                 ELSE Err(OutputStatusFail(d.val))

----------------------------------------------------------------------------
(* token_for_host, one step per link of the or_else chain *)

Running == [kind |-> "Running"]
Returned(opt) == [kind |-> "Returned", value |-> opt]
Panicked(err) == [kind |-> "Panicked", err |-> err]

NoCall == [called |-> FALSE]
Called(o) == [called |-> TRUE, outcome |-> o]

Init ==
    /\ env \in [EnvNames -> EnvValues]
    /\ helper \in HelperBehaviours
    /\ pc = "idle"
    /\ host = "github.com"
    /\ acc = None
    /\ consulted = <<>>
    /\ spawned = <<>>
    /\ outcome = Running
    /\ prev = [h \in Hosts |-> NoCall]

\* the caller enters token_for_host(h)
Call(h) ==
    /\ pc = "idle"
    /\ pc' = "env"
    /\ host' = h
    /\ acc' = None
    /\ consulted' = <<>>
    /\ spawned' = <<>>
    /\ outcome' = Running
    /\ UNCHANGED <<env, helper, prev>>

\* token_from_env(host).map(Token::from)
StepEnv ==
    /\ pc = "env"
    /\ LET r == token_from_env(host)
       IN  acc' = IF r.some THEN Some(TokenFromEnvToken(r.val)) ELSE None
    /\ consulted' = Append(consulted, "Env")
    /\ pc' = "config"
    /\ UNCHANGED <<env, helper, host, spawned, outcome, prev>>

\* .or(token_from_config(host).map(Token::from)): the argument is evaluated
\* whether or not a token was found
StepConfigEager ==
    /\ pc = "config"
    /\ LET r == token_from_config(host)
       IN  acc' = Or(acc, IF r.some THEN Some(TokenFromConfigToken(r.val))
                          ELSE None)
    /\ consulted' = Append(consulted, "Config")
    /\ pc' = "keyring"
    /\ UNCHANGED <<env, helper, host, spawned, outcome, prev>>

\* .or_else(|| token_from_config(host).map(Token::from))
StepConfig ==
    /\ pc = "config"
    /\ IF acc.some
       THEN UNCHANGED <<acc, consulted>>
       ELSE /\ LET r == token_from_config(host)
               IN  acc' = IF r.some THEN Some(TokenFromConfigToken(r.val))
                          ELSE None
            /\ consulted' = Append(consulted, "Config")
    /\ pc' = "keyring"
    /\ UNCHANGED <<env, helper, host, spawned, outcome, prev>>

\* token_from_keyring(host).ok().flatten(): the error dropped, not raised
StepKeyringSwallow ==
    /\ pc = "keyring"
    /\ IF acc.some
       THEN /\ outcome' = Returned(acc)
            /\ UNCHANGED <<acc, consulted, spawned>>
       ELSE LET r == token_from_keyring(host)
            IN  /\ consulted' = Append(consulted, "Keyring")
                /\ spawned' = Append(spawned, args(host))
                /\ acc' = IF r.ok /\ r.val.some
                          THEN Some(TokenFromKeyringToken(r.val.val))
                          ELSE None
                /\ outcome' = Returned(acc')
    /\ pc' = "done"
    /\ UNCHANGED <<env, helper, host, prev>>

\* the helper spawned a second time when the first run gave an error
StepKeyringRetry ==
    /\ pc = "keyring"
    /\ IF acc.some
       THEN /\ outcome' = Returned(acc)
            /\ UNCHANGED <<acc, consulted, spawned>>
       ELSE LET r == token_from_keyring(host)
            IN  IF ~r.ok
                THEN /\ consulted' = consulted \o <<"Keyring", "Keyring">>
                     /\ spawned' = spawned \o <<args(host), args(host)>>
                     /\ outcome' = Panicked(r.err)
                     /\ acc' = acc
                ELSE /\ consulted' = Append(consulted, "Keyring")
                     /\ spawned' = Append(spawned, args(host))
                     /\ acc' = IF r.val.some
                               THEN Some(TokenFromKeyringToken(r.val.val))
                               ELSE None
                     /\ outcome' = Returned(acc')
    /\ pc' = "done"
    /\ UNCHANGED <<env, helper, host, prev>>

\* the token the helper gave kept in GH_TOKEN for the calls to come
StepKeyringCache ==
    /\ pc = "keyring"
    /\ IF acc.some
       THEN /\ outcome' = Returned(acc)
            /\ UNCHANGED <<acc, consulted, spawned, env>>
       ELSE LET r == token_from_keyring(host)
            IN  /\ consulted' = Append(consulted, "Keyring")
                /\ spawned' = Append(spawned, args(host))
                /\ IF ~r.ok
                   THEN /\ outcome' = Panicked(r.err)
                        /\ UNCHANGED <<acc, env>>
                   ELSE /\ acc' = IF r.val.some
                                  THEN Some(TokenFromKeyringToken(r.val.val))
                                  ELSE None
                        /\ outcome' = Returned(acc')
                        /\ env' = IF r.val.some
                                  THEN [env EXCEPT !["GH_TOKEN"] = SetTo(helper.stdout)]
                                  ELSE env
    /\ pc' = "done"
    /\ UNCHANGED <<helper, host, prev>>

\* .or_else(|| token_from_keyring(host).map_err(|err| panic!(..)).ok()
\*                 .flatten().map(Token::from)), then the return
StepKeyring ==
    /\ pc = "keyring"
    /\ IF acc.some
       THEN /\ outcome' = Returned(acc)
            /\ UNCHANGED <<acc, consulted, spawned>>
       ELSE LET r == token_from_keyring(host)
            IN  /\ consulted' = Append(consulted, "Keyring")
                /\ spawned' = Append(spawned, args(host))
                /\ IF ~r.ok
                   THEN /\ outcome' = Panicked(r.err)
                        /\ acc' = acc
                   ELSE /\ acc' = IF r.val.some
                                  THEN Some(TokenFromKeyringToken(r.val.val))
                                  ELSE None
                        /\ outcome' = Returned(acc')
    /\ pc' = "done"
    /\ UNCHANGED <<env, helper, host, prev>>

\* the caller has the result (or the panic) and may call again
Finish ==
    /\ pc = "done"
    /\ pc' = "idle"
    /\ prev' = [prev EXCEPT ![host] = Called(outcome)]
    /\ host' = "github.com"
    /\ acc' = None
    /\ consulted' = <<>>
    /\ spawned' = <<>>
    /\ outcome' = Running
    /\ UNCHANGED <<env, helper>>

\* between calls the caller sets or removes an environment variable
SetEnv(name, value) ==
    /\ pc = "idle"
    /\ env[name] # value
    /\ env' = [env EXCEPT ![name] = value]
    /\ prev' = [h \in Hosts |-> NoCall]
    /\ UNCHANGED <<helper, pc, host, acc, consulted, spawned, outcome>>

\* between calls the helper's behaviour changes (login, logout, uninstall)
SetHelper(b) ==
    /\ pc = "idle"
    /\ helper # b
    /\ helper' = b
    /\ prev' = [h \in Hosts |-> NoCall]
    /\ UNCHANGED <<env, pc, host, acc, consulted, spawned, outcome>>

Next ==
    \/ \E h \in Hosts : Call(h)
    \/ StepEnv
    \/ StepConfig
    \/ StepKeyring
    \/ Finish
    \/ \E n \in EnvNames, v \in EnvValues : SetEnv(n, v)
    \/ \E b \in HelperBehaviours : SetHelper(b)

Spec == Init /\ [][Next]_vars

TypeOK ==
    /\ env \in [EnvNames -> EnvValues]
    /\ helper \in HelperBehaviours
    /\ pc \in {"idle", "env", "config", "keyring", "done"}
    /\ host \in Hosts
    /\ acc.some \in BOOLEAN
    /\ Len(consulted) <= 3
    /\ outcome.kind \in {"Running", "Returned", "Panicked"}

----------------------------------------------------------------------------
(* Vocabulary of the properties, stated on the inputs of a call *)

Range(s) == {s[i] : i \in 1..Len(s)}

IsSet(name) == env[name].set

\* set, and to a value that is valid Unicode
IsSetToText(name) == env[name].set /\ from_utf8(env[name].bytes).ok

\* the variables of the host's class, short form first
Applicable(h) ==
    IF h = "github.com"
    THEN <<"GH_TOKEN", "GITHUB_TOKEN">>
    ELSE <<"GH_ENTERPRISE_TOKEN", "GITHUB_ENTERPRISE_TOKEN">>

VarOf(name) ==
    CASE name = "GH_TOKEN" -> "GHToken"
      [] name = "GITHUB_TOKEN" -> "GitHubToken"
      [] name = "GH_ENTERPRISE_TOKEN" -> "GHEnterpriseToken"
      [] name = "GITHUB_ENTERPRISE_TOKEN" -> "GitHubEnterpriseToken"

\* the call returned Some(token) holding the value of variable `name`, with
\* source Env(that variable)
ReturnedVariable(name) ==
    /\ outcome.kind = "Returned"
    /\ outcome.value.some
    /\ outcome.value.val.source = SourceEnv(VarOf(name))
    /\ LET d == from_utf8(env[name].bytes)
       IN  d.ok /\ d.val = outcome.value.val.value

ReturnedFromEnv ==
    /\ outcome.kind = "Returned"
    /\ outcome.value.some
    /\ outcome.value.val.source.tag = "Env"

\* no variable of the host's class yields a value
NoEnvMatch(h) == \A i \in 1..2 : ~IsSetToText(Applicable(h)[i])

HelperSucceeded == helper.launch = "Ok" /\ helper.success
HelperFailed == helper.launch = "Ok" /\ ~helper.success

\* text t holds the benign diagnostic at some position
HasBenignDiagnostic(t) ==
    \E i \in 0..Len(t) :
        /\ i + Len(NoOAuthTokenFound) <= Len(t)
        /\ \A k \in 1..Len(NoOAuthTokenFound) : t[i + k] = NoOAuthTokenFound[k]

\* v is t without its leading and trailing whitespace
IsStripped(v, t) ==
    \E i \in 0..Len(t), j \in 0..Len(t) :
        /\ i + j <= Len(t)
        /\ v = SubSeq(t, i + 1, Len(t) - j)
        /\ \A k \in 1..i : t[k] \in WhiteSpace
        /\ \A k \in (Len(t) - j + 1)..Len(t) : t[k] \in WhiteSpace
        /\ v # <<>> => v[1] \notin WhiteSpace /\ v[Len(v)] \notin WhiteSpace

\* the error the Keyring Resolver owes for the helper's behaviour, or "none"
KeyringErrorKind ==
    IF helper.launch # "Ok" THEN "FailToExecute"
    ELSE IF helper.success
    THEN IF from_utf8(helper.stdout).ok THEN "none" ELSE "StdoutNotUTF8"
    ELSE IF ~from_utf8(helper.stderr).ok THEN "StdErrorNotUTF8"
    ELSE IF HasBenignDiagnostic(from_utf8(helper.stderr).val) THEN "none"
    ELSE "OutputStatusFail"

----------------------------------------------------------------------------
(* C1 *)

\* C1, as stated: for host github.com the call returns GH_TOKEN's value with
\* source Env(GHToken) whenever GH_TOKEN is set, and GITHUB_TOKEN's value with
\* source Env(GitHubToken) when GH_TOKEN is unset and GITHUB_TOKEN is set.
C1_AsStated ==
    (pc = "done" /\ host = "github.com") =>
        /\ IsSet("GH_TOKEN") => ReturnedVariable("GH_TOKEN")
        /\ (~IsSet("GH_TOKEN") /\ IsSet("GITHUB_TOKEN"))
               => ReturnedVariable("GITHUB_TOKEN")

\* C1, amended: for host github.com the call returns GH_TOKEN's value with
\* source Env(GHToken) whenever GH_TOKEN is set to valid Unicode, whether or
\* not GITHUB_TOKEN is set; when GH_TOKEN is unset and GITHUB_TOKEN is set to
\* valid Unicode it returns GITHUB_TOKEN's value with source Env(GitHubToken).
C1_PlainPrecedence ==
    (pc = "done" /\ host = "github.com") =>
        /\ IsSetToText("GH_TOKEN") => ReturnedVariable("GH_TOKEN")
        /\ (~IsSet("GH_TOKEN") /\ IsSetToText("GITHUB_TOKEN"))
               => ReturnedVariable("GITHUB_TOKEN")

\* both plain variables set, to different texts: GH_TOKEN won
C1_Witness ==
    /\ pc = "done" /\ host = "github.com"
    /\ env["GH_TOKEN"] = SetTo(<<>>)
    /\ env["GITHUB_TOKEN"] = SetTo(<<97>>)
    /\ outcome = Returned(Some(Token(<<>>, SourceEnv("GHToken"))))

----------------------------------------------------------------------------
(* C2 *)

\* C2, as stated: for every host other than github.com the call returns
\* GH_ENTERPRISE_TOKEN's value with source Env(GHEnterpriseToken) whenever it
\* is set, and GITHUB_ENTERPRISE_TOKEN's value with source
\* Env(GitHubEnterpriseToken) when the former is unset and the latter is set.
C2_AsStated ==
    (pc = "done" /\ host # "github.com") =>
        /\ IsSet("GH_ENTERPRISE_TOKEN")
               => ReturnedVariable("GH_ENTERPRISE_TOKEN")
        /\ (~IsSet("GH_ENTERPRISE_TOKEN") /\ IsSet("GITHUB_ENTERPRISE_TOKEN"))
               => ReturnedVariable("GITHUB_ENTERPRISE_TOKEN")

\* C2, amended: the same with "set" read as "set to valid Unicode" for the
\* variable whose value is returned.
C2_EnterprisePrecedence ==
    (pc = "done" /\ host # "github.com") =>
        /\ IsSetToText("GH_ENTERPRISE_TOKEN")
               => ReturnedVariable("GH_ENTERPRISE_TOKEN")
        /\ (~IsSet("GH_ENTERPRISE_TOKEN")
                /\ IsSetToText("GITHUB_ENTERPRISE_TOKEN"))
               => ReturnedVariable("GITHUB_ENTERPRISE_TOKEN")

\* a host that differs from github.com in case only, both enterprise
\* variables set to different texts: GH_ENTERPRISE_TOKEN won
C2_Witness ==
    /\ pc = "done" /\ host = "GitHub.com"
    /\ env["GH_ENTERPRISE_TOKEN"] = SetTo(<<97>>)
    /\ env["GITHUB_ENTERPRISE_TOKEN"] = SetTo(<<>>)
    /\ outcome = Returned(Some(Token(<<97>>, SourceEnv("GHEnterpriseToken"))))

----------------------------------------------------------------------------
(* C3 *)

\* C3, as stated: when a variable of the host's class is set, the call
\* consults neither the Config Resolver nor the Keyring Resolver, spawns no
\* helper, and returns the environment-sourced token.
C3_AsStated ==
    (pc # "idle" /\ \E i \in 1..2 : IsSet(Applicable(host)[i])) =>
        /\ "Config" \notin Range(consulted)
        /\ "Keyring" \notin Range(consulted)
        /\ spawned = <<>>
        /\ pc = "done" => ReturnedFromEnv

\* C3, amended: when a variable of the host's class is set to valid Unicode,
\* the call consults neither the Config Resolver nor the Keyring Resolver,
\* spawns no helper, and returns the environment-sourced token.
C3_EnvIsTerminal ==
    (pc # "idle" /\ \E i \in 1..2 : IsSetToText(Applicable(host)[i])) =>
        /\ "Config" \notin Range(consulted)
        /\ "Keyring" \notin Range(consulted)
        /\ spawned = <<>>
        /\ pc = "done" => ReturnedFromEnv

\* an environment token returned while the helper could not even be launched
C3_Witness ==
    /\ pc = "done"
    /\ \E i \in 1..2 : IsSetToText(Applicable(host)[i])
    /\ helper.launch = "NotFound"
    /\ ReturnedFromEnv
    /\ consulted = <<"Env">>

----------------------------------------------------------------------------
(* C4 *)

\* C4: with both variables of the host's class unset, the Environment
\* Resolver yields no result whatever the variables of the other class hold,
\* and the call goes on to the Config and the Keyring Resolver.
C4_OtherClassIgnored ==
    (pc # "idle" /\ \A i \in 1..2 : ~IsSet(Applicable(host)[i])) =>
        /\ token_from_env(host) = None
        /\ pc = "config" => acc = None
        /\ pc = "done" => consulted = <<"Env", "Config", "Keyring">>

\* github.com with only the enterprise variables set: the helper was asked
C4_Witness ==
    /\ pc = "done" /\ host = "github.com"
    /\ ~IsSet("GH_TOKEN") /\ ~IsSet("GITHUB_TOKEN")
    /\ IsSetToText("GH_ENTERPRISE_TOKEN")
    /\ IsSetToText("GITHUB_ENTERPRISE_TOKEN")
    /\ consulted = <<"Env", "Config", "Keyring">>
    /\ Len(spawned) = 1

----------------------------------------------------------------------------
(* C5 *)

\* C5: when the helper exits successfully with stdout that is valid UTF-8,
\* the Keyring Resolver returns "found" with stdout's text stripped of leading
\* and trailing whitespace, and a call with no environment match returns that
\* value with source Keyring.
C5_KeyringSuccess ==
    (HelperSucceeded /\ from_utf8(helper.stdout).ok) =>
        LET r == token_from_keyring(host)
        IN  /\ r.ok /\ r.val.some
            /\ IsStripped(r.val.val.value, from_utf8(helper.stdout).val)
            /\ (pc = "done" /\ NoEnvMatch(host)) =>
                   outcome = Returned(Some(Token(r.val.val.value, SourceKeyring)))

\* stdout " a ": the token "a", from the keyring
C5_Witness ==
    /\ pc = "done" /\ host = "github.com"
    /\ NoEnvMatch(host)
    /\ helper = Exited(TRUE, <<32, 97, 32>>, <<>>)
    /\ outcome = Returned(Some(Token(<<97>>, SourceKeyring)))

----------------------------------------------------------------------------
(* C6 *)

\* C6: with no variable of the host's class set, a helper that exits with
\* failure and whose stderr is text holding "no oauth token found" makes the
\* call return None, for any host: no error, no abort.
C6_BenignAbsence ==
    ( /\ pc = "done"
      /\ \A i \in 1..2 : ~IsSet(Applicable(host)[i])
      /\ HelperFailed
      /\ from_utf8(helper.stderr).ok
      /\ HasBenignDiagnostic(from_utf8(helper.stderr).val) )
        => outcome = Returned(None)

\* the diagnostic inside a longer message, for a host other than github.com
C6_Witness ==
    /\ pc = "done" /\ host = "my.ghes.com"
    /\ \A n \in EnvNames : ~IsSet(n)
    /\ helper = Exited(FALSE, <<>>, <<101, 58, 32>> \o NoOAuthTokenFound \o <<10>>)
    /\ outcome = Returned(None)

----------------------------------------------------------------------------
(* C7 *)

\* C7: when the environment and the config yield nothing and the Keyring
\* Resolver returns one of its four errors, the call panics with that error:
\* it returns neither None nor a token.
C7_KeyringErrorPanics ==
    (pc = "done" /\ NoEnvMatch(host) /\ token_from_config(host) = None
        /\ KeyringErrorKind # "none")
        => /\ outcome.kind = "Panicked"
           /\ outcome.err.tag = KeyringErrorKind

\* a failure exit whose stderr misses the diagnostic by one letter
C7_Witness ==
    /\ pc = "done"
    /\ NoEnvMatch(host)
    /\ HelperFailed
    /\ helper.stderr = SubSeq(NoOAuthTokenFound, 1, Len(NoOAuthTokenFound) - 1)
    /\ outcome = Panicked(OutputStatusFail(helper.stderr))

----------------------------------------------------------------------------
(* C8 *)

\* C8: no step of a call changes the environment or the helper's behaviour,
\* and a call that ends while neither has changed since an earlier call for
\* the same host ends as that call did (same token, same None, same panic).
C8_Idempotent ==
    [][ /\ (pc # "idle" \/ pc' # "idle") => (env' = env /\ helper' = helper)
        /\ (pc' = "done" /\ prev'[host'].called)
               => outcome' = prev'[host'].outcome ]_vars

\* a second call for github.com, after one for another host, gave the same
\* keyring token again
C8_Witness ==
    /\ pc = "done" /\ host = "github.com"
    /\ prev["github.com"].called /\ prev["my.ghes.com"].called
    /\ prev["github.com"].outcome = outcome
    /\ prev["my.ghes.com"].outcome # outcome
    /\ outcome.kind = "Returned" /\ outcome.value.some
    /\ outcome.value.val.source = SourceKeyring

----------------------------------------------------------------------------
(* C9 *)

\* C9: within a call the resolvers are consulted in the order Env, Config,
\* Keyring, each at most once, a later one only if every earlier one yielded
\* nothing, and the helper is spawned at most once.
C9_OrderedOnce ==
    /\ \E n \in 0..3 : consulted = SubSeq(<<"Env", "Config", "Keyring">>, 1, n)
    /\ "Config" \in Range(consulted) => token_from_env(host) = None
    /\ "Keyring" \in Range(consulted)
           => token_from_env(host) = None /\ token_from_config(host) = None
    /\ Len(spawned) <= 1
    /\ Len(spawned) = 1 <=> "Keyring" \in Range(consulted)
    /\ pc \in {"config", "keyring", "done"} => "Env" \in Range(consulted)

\* a call that went through all three resolvers and spawned the helper once,
\* the helper failing
C9_Witness ==
    /\ pc = "done"
    /\ consulted = <<"Env", "Config", "Keyring">>
    /\ spawned = <<args(host)>>
    /\ outcome.kind = "Panicked"

----------------------------------------------------------------------------
(* C10 *)

\* C10: on a successful helper exit whose stdout is empty or only whitespace
\* the Keyring Resolver returns "found" with the empty value, and a call with
\* no environment match returns a Token whose value is the empty string.
C10_EmptyTokenReturned ==
    ( /\ HelperSucceeded
      /\ from_utf8(helper.stdout).ok
      /\ \A c \in Range(from_utf8(helper.stdout).val) : c \in WhiteSpace )
        => /\ token_from_keyring(host) = Ok(Some(KeyringToken(<<>>)))
           /\ (pc = "done" /\ NoEnvMatch(host))
                  => outcome = Returned(Some(Token(<<>>, SourceKeyring)))

\* stdout of two spaces: token_for_host returned a Token with an empty value
C10_Witness ==
    /\ pc = "done"
    /\ helper = Exited(TRUE, <<32, 32>>, <<>>)
    /\ outcome.kind = "Returned" /\ outcome.value.some
    /\ outcome.value.val.value = <<>>
    /\ outcome.value.val.source = SourceKeyring

====
